---- MODULE Spec2Model ----
(***************************************************************************)
(* The application lifecycle orchestrator of the Smart Environmental       *)
(* Monitoring System (src/src/main.py, class Application, and the /health  *)
(* endpoint of create_app).                                                *)
(*                                                                         *)
(* The orchestrator runs on one asyncio event loop.  A state of the model  *)
(* is a point where the lifecycle caller is suspended or between calls:    *)
(* startup() has no suspension point and is one action; shutdown()         *)
(* suspends at `await task` (when the task is not done) and at the         *)
(* services' stop().  The background tasks and the /health handler run at  *)
(* those points.  The lifecycle calls come from one caller (the lifespan   *)
(* hook), one after the other: no startup() or shutdown() begins while a   *)
(* shutdown() is suspended.                                                *)
(*                                                                         *)
(* SensorSimulator and DataProcessor (src/data_ingestion, src/processing)  *)
(* are imported by main.py; their start/stop/is_running are modelled from  *)
(* the capability contract of the specification (section 4.1).             *)
(***************************************************************************)
EXTENDS Naturals, Sequences, FiniteSets

\* Number of startup() calls and of shutdown() calls explored.
MaxStartups == 2
MaxShutdowns == 2
\* Number of startup() calls explored under the fair specification.
MaxFairStartups == 1

VARIABLES
  sensor_simulator,   \* Application.sensor_simulator: None or a service instance
  data_processor,     \* Application.data_processor: None or a service instance
  background_tasks,   \* Application.background_tasks: the list of asyncio tasks
  is_running,         \* is_running of each service instance
  stop_calls,         \* number of stop() invocations on each service instance
  pc,                 \* where shutdown() is suspended; "idle" when no call is active
  idx,                \* the task shutdown() is awaiting (position in background_tasks)
  startups,           \* startup() calls issued so far
  shutdowns,          \* shutdown() calls issued so far
  last_op,            \* the lifecycle call that returned last: none, startup, shutdown
  startup_result,     \* how the last startup() ended: [status, unit]
  shutdown_result,    \* how the last shutdown() ended: none, returned, raised
  shutdown_log,       \* what the last shutdown() logged: none, complete, error
  cancel_sent,        \* tasks on which the current/last shutdown() called cancel()
  waited,             \* tasks on which the current/last shutdown() suspended
  stops_done          \* services on which the current/last shutdown() invoked stop()

vars == <<sensor_simulator, data_processor, background_tasks, is_running,
          stop_calls, pc, idx, startups, shutdowns, last_op, startup_result,
          shutdown_result, shutdown_log, cancel_sent, waited, stops_done>>

\* Python's None for the two service references.
None == 0

\* Service instances: the k-th startup() constructs sensor 2k-1 and processor 2k.
ServiceIds == 1 .. (2 * MaxStartups)
SensorId(k) == 2 * k - 1
ProcessorId(k) == 2 * k

\* Positions of background_tasks: two tasks per successful startup().
TaskIds == 1 .. (2 * MaxStartups)

\* asyncio.create_task(service.start()): a task that has not run yet.
NewTask(s) == [svc |-> s, st |-> "pending", cancel |-> FALSE]

\* Task.done().
Done(t) == t.st \in {"cancelled", "finished", "start_failed", "crashed"}

\* task.cancel(): a no-op on a done task, else a cancellation request.
CancelNoRequest(t) == t
Cancel(t) == IF Done(t) THEN t ELSE [t EXCEPT !.cancel = TRUE]

\* What `await task` yields once the task is done.
AwaitOutcome(t) ==
  CASE t.st = "finished" -> "return"
    [] t.st = "cancelled" -> "CancelledError"
    [] OTHER -> "Exception"

\* `await task` suspends the caller exactly when the task is not done.
AwaitSuspends(t) == ~Done(t)

\* The inner handler of shutdown(): `except asyncio.CancelledError: pass`.
\* TRUE when the loop goes on to the next task, FALSE when the outcome
\* propagates to the outer handler.
InnerExceptPasses(outcome) == outcome \in {"return", "CancelledError"}

\* The outer handler of shutdown(): `except Exception as e: logger.error(...)`,
\* after which shutdown() returns normally.
ShutdownExceptReraises == [result |-> "raised", log |-> "error"]
ShutdownExcept == [result |-> "returned", log |-> "error"]

\* A shutdown loop that signals every task first and only then waits on them
\* in turn (cancel-all, then wait), in place of cancel-and-wait one by one.
CancelAll(tasks) == [k \in DOMAIN tasks |-> Cancel(tasks[k])]
RECURSIVE WaitFrom(_, _, _)
WaitFrom(tasks, i, sent) ==
  IF i > Len(tasks)
  THEN [tasks |-> tasks, idx |-> i, sent |-> sent, next |-> "stops"]
  ELSE IF AwaitSuspends(tasks[i])
       THEN [tasks |-> tasks, idx |-> i, sent |-> sent, next |-> "await"]
       ELSE IF InnerExceptPasses(AwaitOutcome(tasks[i]))
            THEN WaitFrom(tasks, i + 1, sent)
            ELSE [tasks |-> tasks, idx |-> i, sent |-> sent, next |-> "except"]
ShutdownLoopCancelAllFirst(tasks, i, sent) ==
  WaitFrom(CancelAll(tasks), i, DOMAIN tasks)

\* The for loop of shutdown() from task i on, run up to its next suspension:
\* cancel task i, await it, go on.  next is "await" (suspended on task idx),
\* "except" (an awaited task's exception reached the outer handler) or
\* "stops" (the loop is over).
RECURSIVE ShutdownLoop(_, _, _)
ShutdownLoop(tasks, i, sent) ==
  IF i > Len(tasks)
  THEN [tasks |-> tasks, idx |-> i, sent |-> sent, next |-> "stops"]
  ELSE LET t == Cancel(tasks[i])
           tasks2 == [tasks EXCEPT ![i] = t]
           sent2 == sent \cup {i}
       IN IF AwaitSuspends(t)
          THEN [tasks |-> tasks2, idx |-> i, sent |-> sent2, next |-> "await"]
          ELSE IF InnerExceptPasses(AwaitOutcome(t))
               THEN ShutdownLoop(tasks2, i + 1, sent2)
               ELSE [tasks |-> tasks2, idx |-> i, sent |-> sent2, next |-> "except"]

\* The response of GET /health.
health_check ==
  [status |-> "healthy",
   sensors |-> IF sensor_simulator # None THEN is_running[sensor_simulator] ELSE FALSE,
   processor |-> IF data_processor # None THEN is_running[data_processor] ELSE FALSE]

Init ==
  /\ sensor_simulator = None
  /\ data_processor = None
  /\ background_tasks = <<>>
  /\ is_running = [s \in ServiceIds |-> FALSE]
  /\ stop_calls = [s \in ServiceIds |-> 0]
  /\ pc = "idle"
  /\ idx = 0
  /\ startups = 0
  /\ shutdowns = 0
  /\ last_op = "none"
  /\ startup_result = [status |-> "none", unit |-> "none"]
  /\ shutdown_result = "none"
  /\ shutdown_log = "none"
  /\ cancel_sent = {}
  /\ waited = {}
  /\ stops_done = {}

----------------------------------------------------------------------------
\* Application.startup

\* Both constructors succeed and _start_background_services appends two tasks.
StartupOk ==
  /\ sensor_simulator' = SensorId(startups + 1)
  /\ data_processor' = ProcessorId(startups + 1)
  /\ background_tasks' = background_tasks \o
        <<NewTask(SensorId(startups + 1)), NewTask(ProcessorId(startups + 1))>>
  /\ startup_result' = [status |-> "ok", unit |-> "none"]

\* SensorSimulator(...) raises: nothing was assigned; the handler logs and re-raises.
StartupSensorCtorFails ==
  /\ startup_result' = [status |-> "raised", unit |-> "sensors"]
  /\ UNCHANGED <<sensor_simulator, data_processor, background_tasks>>

\* DataProcessor(...) raises: the new sensor simulator is already assigned.
StartupProcessorCtorFails ==
  /\ sensor_simulator' = SensorId(startups + 1)
  /\ startup_result' = [status |-> "raised", unit |-> "processor"]
  /\ UNCHANGED <<data_processor, background_tasks>>

StartupUpTo(limit) ==
  /\ pc = "idle"
  /\ startups < limit
  /\ startups' = startups + 1
  /\ last_op' = "startup"
  /\ \/ StartupOk
     \/ StartupSensorCtorFails
     \/ StartupProcessorCtorFails
  /\ UNCHANGED <<is_running, stop_calls, pc, idx, shutdowns, shutdown_result,
                 shutdown_log, cancel_sent, waited, stops_done>>

Startup == StartupUpTo(MaxStartups)

StartupFair == StartupUpTo(MaxFairStartups)

----------------------------------------------------------------------------
\* Application.shutdown

\* shutdown() returns to its caller.
ShutdownReturn(outcome) ==
  /\ pc' = "idle"
  /\ idx' = 0
  /\ last_op' = "shutdown"
  /\ shutdown_result' = outcome.result
  /\ shutdown_log' = outcome.log

ShutdownComplete == [result |-> "returned", log |-> "complete"]

\* After the loop: `if self.sensor_simulator: await ...stop()`, then the processor.
AfterLoop ==
  IF sensor_simulator # None THEN "stop_sensors"
  ELSE IF data_processor # None THEN "stop_processor"
  ELSE "complete"

AfterSensors == IF data_processor # None THEN "stop_processor" ELSE "complete"

Goto(where) ==
  IF where = "complete"
  THEN ShutdownReturn(ShutdownComplete)
  ELSE /\ pc' = where
       /\ idx' = 0
       /\ UNCHANGED <<last_op, shutdown_result, shutdown_log>>

\* The state after the loop ran to r.
ApplyLoop(r) ==
  /\ background_tasks' = r.tasks
  /\ cancel_sent' = r.sent
  /\ waited' = IF r.next = "await" THEN waited \cup {r.idx} ELSE waited
  /\ CASE r.next = "await" ->
            /\ pc' = "await"
            /\ idx' = r.idx
            /\ UNCHANGED <<last_op, shutdown_result, shutdown_log>>
       [] r.next = "except" -> ShutdownReturn(ShutdownExcept)
       [] OTHER -> Goto(AfterLoop)

\* shutdown() is called: it runs to its first suspension or to its return.
Shutdown ==
  /\ pc = "idle"
  /\ shutdowns < MaxShutdowns
  /\ shutdowns' = shutdowns + 1
  /\ stops_done' = {}
  /\ LET r == ShutdownLoop(background_tasks, 1, {})
     IN /\ background_tasks' = r.tasks
        /\ cancel_sent' = r.sent
        /\ waited' = IF r.next = "await" THEN {r.idx} ELSE {}
        /\ CASE r.next = "await" ->
                  /\ pc' = "await"
                  /\ idx' = r.idx
                  /\ UNCHANGED <<last_op, shutdown_result, shutdown_log>>
             [] r.next = "except" -> ShutdownReturn(ShutdownExcept)
             [] OTHER -> Goto(AfterLoop)
  /\ UNCHANGED <<sensor_simulator, data_processor, is_running, stop_calls,
                 startups, startup_result>>

\* The awaited task is done: `await task` resumes and the loop goes on.
ShutdownResume ==
  /\ pc = "await"
  /\ Done(background_tasks[idx])
  /\ IF InnerExceptPasses(AwaitOutcome(background_tasks[idx]))
     THEN ApplyLoop(ShutdownLoop(background_tasks, idx + 1, cancel_sent))
     ELSE /\ ShutdownReturn(ShutdownExcept)
          /\ UNCHANGED <<background_tasks, cancel_sent, waited>>
  /\ UNCHANGED <<sensor_simulator, data_processor, is_running, stop_calls,
                 startups, shutdowns, startup_result, stops_done>>

\* Service.stop(): the service is no longer running.
ServiceStop(s) ==
  /\ is_running' = [is_running EXCEPT ![s] = FALSE]
  /\ stop_calls' = [stop_calls EXCEPT ![s] = @ + 1]

\* Service.stop() raises: the call is counted, the service is left as it was.
ServiceStopRaises(s) ==
  /\ stop_calls' = [stop_calls EXCEPT ![s] = @ + 1]
  /\ UNCHANGED is_running

\* `await self.sensor_simulator.stop()`
ShutdownStopSensors ==
  /\ pc = "stop_sensors"
  /\ stops_done' = stops_done \cup {"sensors"}
  /\ \/ /\ ServiceStop(sensor_simulator)
        /\ Goto(AfterSensors)
     \/ /\ ServiceStopRaises(sensor_simulator)
        /\ ShutdownReturn(ShutdownExcept)
  /\ UNCHANGED <<sensor_simulator, data_processor, background_tasks, startups,
                 shutdowns, startup_result, cancel_sent, waited>>

\* `await self.data_processor.stop()`, then "Shutdown complete".
ShutdownStopProcessor ==
  /\ pc = "stop_processor"
  /\ stops_done' = stops_done \cup {"processor"}
  /\ \/ /\ ServiceStop(data_processor)
        /\ ShutdownReturn(ShutdownComplete)
     \/ /\ ServiceStopRaises(data_processor)
        /\ ShutdownReturn(ShutdownExcept)
  /\ UNCHANGED <<sensor_simulator, data_processor, background_tasks, startups,
                 shutdowns, startup_result, cancel_sent, waited>>

----------------------------------------------------------------------------
\* GET /health

HealthCheck ==
  /\ health_check.status = "healthy"
  /\ UNCHANGED vars

----------------------------------------------------------------------------
\* The background tasks: each runs one service's start().

TaskStep(i, st, running) ==
  /\ background_tasks' =
       [background_tasks EXCEPT ![i] = [@ EXCEPT !.st = st, !.cancel = FALSE]]
  /\ is_running' = [is_running EXCEPT ![background_tasks[i].svc] = running]
  /\ UNCHANGED <<sensor_simulator, data_processor, stop_calls, pc, idx,
                 startups, shutdowns, last_op, startup_result, shutdown_result,
                 shutdown_log, cancel_sent, waited, stops_done>>

\* start() begins its work loop.
TaskStart(i) ==
  /\ i \in DOMAIN background_tasks
  /\ background_tasks[i].st = "pending"
  /\ ~background_tasks[i].cancel
  /\ TaskStep(i, "running", TRUE)

\* start() fails on its preconditions: the service never claims to run.
TaskStartFail(i) ==
  /\ i \in DOMAIN background_tasks
  /\ background_tasks[i].st = "pending"
  /\ ~background_tasks[i].cancel
  /\ TaskStep(i, "start_failed", FALSE)

\* The work loop raises.
TaskCrash(i) ==
  /\ i \in DOMAIN background_tasks
  /\ background_tasks[i].st = "running"
  /\ TaskStep(i, "crashed", FALSE)

\* The cancellation is delivered and ends the task.
TaskCancelled(i) ==
  /\ i \in DOMAIN background_tasks
  /\ background_tasks[i].st \in {"pending", "running"}
  /\ background_tasks[i].cancel
  /\ TaskStep(i, "cancelled", is_running[background_tasks[i].svc])

\* start() catches the cancellation and returns normally.
TaskCancelReturn(i) ==
  /\ i \in DOMAIN background_tasks
  /\ background_tasks[i].st = "running"
  /\ background_tasks[i].cancel
  /\ TaskStep(i, "finished", is_running[background_tasks[i].svc])

\* start() swallows the cancellation and keeps running: it never terminates.
TaskSwallow(i) ==
  /\ i \in DOMAIN background_tasks
  /\ background_tasks[i].st = "running"
  /\ background_tasks[i].cancel
  /\ TaskStep(i, "deaf", is_running[background_tasks[i].svc])

\* The event loop delivers a requested cancellation to the task.
TaskCancelDelivery(i) ==
  TaskCancelled(i) \/ TaskCancelReturn(i) \/ TaskSwallow(i)

----------------------------------------------------------------------------

Next ==
  \/ Startup
  \/ Shutdown
  \/ ShutdownResume
  \/ ShutdownStopSensors
  \/ ShutdownStopProcessor
  \/ HealthCheck
  \/ \E i \in DOMAIN background_tasks : TaskStart(i)
  \/ \E i \in DOMAIN background_tasks : TaskStartFail(i)
  \/ \E i \in DOMAIN background_tasks : TaskCrash(i)
  \/ \E i \in DOMAIN background_tasks : TaskCancelled(i)
  \/ \E i \in DOMAIN background_tasks : TaskCancelReturn(i)
  \/ \E i \in DOMAIN background_tasks : TaskSwallow(i)

Spec == Init /\ [][Next]_vars

\* The same steps with the number of startup() calls bounded by MaxFairStartups.
NextFair ==
  \/ StartupFair
  \/ Shutdown
  \/ ShutdownResume
  \/ ShutdownStopSensors
  \/ ShutdownStopProcessor
  \/ HealthCheck
  \/ \E i \in DOMAIN background_tasks : TaskStart(i)
  \/ \E i \in DOMAIN background_tasks : TaskStartFail(i)
  \/ \E i \in DOMAIN background_tasks : TaskCrash(i)
  \/ \E i \in DOMAIN background_tasks : TaskCancelled(i)
  \/ \E i \in DOMAIN background_tasks : TaskCancelReturn(i)
  \/ \E i \in DOMAIN background_tasks : TaskSwallow(i)

\* The event loop resumes a coroutine whose awaited task is done, runs stop()
\* to its end, and delivers every requested cancellation.  Nothing obliges a
\* running task to end on its own.
FairSpec ==
  /\ Init
  /\ [][NextFair]_vars
  /\ WF_vars(ShutdownResume)
  /\ WF_vars(ShutdownStopSensors)
  /\ WF_vars(ShutdownStopProcessor)
  /\ \A i \in TaskIds : WF_vars(TaskCancelDelivery(i))

----------------------------------------------------------------------------
\* The orchestrator's phases, read off the calls that returned.

\* No startup() has been issued yet.
Uninitialized == startups = 0

\* The last lifecycle call to return was a startup() that reported success.
Running == last_op = "startup" /\ startup_result.status = "ok"

\* The last lifecycle call to return was a shutdown().
Stopped == last_op = "shutdown"

\* This step is a call of startup() / of shutdown().
StartupCalled == startups' = startups + 1
ShutdownCalled == shutdowns' = shutdowns + 1

AppState == <<sensor_simulator, data_processor, background_tasks>>

\* The tasks spawned by the last startup().
SpawnedByLastStartup(i) ==
  background_tasks[i].svc \in {SensorId(startups), ProcessorId(startups)}

\* start() of task i's service has begun its work loop at some point.
WasStarted(i) == background_tasks[i].st \notin {"pending", "start_failed"}

AllServicesRunning == health_check.sensors /\ health_check.processor

----------------------------------------------------------------------------
\* C1: after a successful startup(), the overall status of health() is
\* 'healthy' exactly when every service reports is_running, and 'degraded'
\* whenever some service is not running.
C1_HealthyIffAllRunning ==
  Running =>
    /\ (health_check.status = "healthy") <=> AllServicesRunning
    /\ ~AllServicesRunning => health_check.status = "degraded"

\* C2: a startup() issued when the orchestrator is not Uninitialized, and a
\* shutdown() issued when it is not Running, fails and leaves the service
\* references and the background task list unchanged.
C2_LifecycleGuard ==
  [][/\ (StartupCalled /\ ~Uninitialized) =>
          (startup_result'.status = "raised" /\ UNCHANGED AppState)
     /\ (ShutdownCalled /\ ~Running) =>
          (shutdown_result' = "raised" /\ pc' = "idle" /\ UNCHANGED AppState)]_vars

\* C3: when the start() of a service spawned by the last startup() has
\* failed, that startup() raised: it never reported success.
C3_StartFailureFailsStartup ==
  \A i \in DOMAIN background_tasks :
    (last_op = "startup" /\ SpawnedByLastStartup(i)
       /\ background_tasks[i].st = "start_failed")
    => startup_result.status = "raised"

\* C4: when the N-th service of a startup() failed to start, that startup()
\* raised and every service 1..N-1 it had started has had stop() invoked
\* exactly once.
C4_RollbackOnPartialFailure ==
  \A i, j \in DOMAIN background_tasks :
    (/\ last_op = "startup"
     /\ i < j
     /\ SpawnedByLastStartup(i) /\ SpawnedByLastStartup(j)
     /\ WasStarted(i)
     /\ background_tasks[j].st = "start_failed")
    => (startup_result.status = "raised"
        /\ stop_calls[background_tasks[i].svc] = 1)

\* C5: shutdown() never raises to its caller, whether an awaited background
\* task ended with an error or a service's stop() raised.
C5_ShutdownNeverRaises == shutdown_result # "raised"

\* A shutdown() that met a task ended with an error, logged it and returned.
C5_Witness ==
  /\ Stopped
  /\ shutdown_result = "returned"
  /\ shutdown_log = "error"
  /\ \E i \in cancel_sent : background_tasks[i].st \in {"crashed", "start_failed"}

\* C6: when shutdown() has returned, stop() has been invoked on every service
\* the orchestrator holds, whatever the tasks and the other stop() did.
C6_StopOnEveryService ==
  Stopped =>
    /\ sensor_simulator # None => "sensors" \in stops_done
    /\ data_processor # None => "processor" \in stops_done

WaitsOverBeforeStops ==
  (pc \in {"stop_sensors", "stop_processor"} \/ (Stopped /\ stops_done # {}))
  => /\ cancel_sent = DOMAIN background_tasks
     /\ \A j \in DOMAIN background_tasks : Done(background_tasks[j])

\* C8: within one shutdown(), every background unit has been sent the
\* cancellation signal before the orchestrator waits on any unit, and all
\* waiting is over before the first stop().
C8_CancelAllBeforeAnyWait ==
  /\ pc = "await" => cancel_sent = DOMAIN background_tasks
  /\ WaitsOverBeforeStops

\* C8 as amended: the units are signalled and awaited one at a time in list
\* order (a unit is signalled only after the wait on its predecessor is
\* over), and all signalling and waiting is over before the first stop().
C8_CancelAndWaitInTurn ==
  /\ pc = "await" =>
       /\ cancel_sent = 1 .. idx
       /\ \A j \in 1 .. (idx - 1) : Done(background_tasks[j])
  /\ WaitsOverBeforeStops

\* A shutdown() waiting on the first of several units, the later ones not yet
\* signalled.
C8_Witness ==
  /\ pc = "await"
  /\ idx < Len(background_tasks)
  /\ background_tasks[idx].cancel
  /\ \E j \in DOMAIN background_tasks :
        j > idx /\ background_tasks[j].st = "running" /\ ~background_tasks[j].cancel

\* C9: in the Uninitialized state and in the Stopped state, health() reports
\* every service as not running.
C9_StoppedReportsNotRunning ==
  (Uninitialized \/ Stopped) => (~health_check.sensors /\ ~health_check.processor)

\* C10: once a shutdown() has returned, every task ever appended to
\* background_tasks has been sent a cancel and has terminated.
C10_AllTasksCancelledAndDone ==
  Stopped =>
    \A i \in DOMAIN background_tasks :
      i \in cancel_sent /\ Done(background_tasks[i])

====
